---- MODULE Spec2Model ----
(***************************************************************************)
(* Model of the FIFO engine of fifo_ct.py (function fifo_ct, lines 81-183).*)
(*                                                                         *)
(* Numbers.  The code computes on float64.  The model computes exactly:    *)
(*   - a quantity (column "amount") is an integer number of quantity       *)
(*     ticks; the tolerance 1e-12 of lines 134 and 136 is Eps ticks.  The  *)
(*     code uses a quantity only in comparisons against another quantity   *)
(*     +/- the tolerance, in differences and in the ratio salida/lot_qty,  *)
(*     and all three are exact on integers.  A "whole" unit of the worked  *)
(*     examples is 40 ticks (4 * Eps), so that every gap of an example     *)
(*     (half a unit or more) is above the tolerance as it is in the code;  *)
(*   - money (column "eur") is a rational number of mils (1/1000 EUR),     *)
(*     held as a normalised pair <<num, den>>, den > 0; a ledger value is  *)
(*     an integer number of mils;                                          *)
(*   - round(x, 2) yields an integer number of cents; where x lies exactly *)
(*     half way between two cents the float the code holds is one of the   *)
(*     two neighbours of x and the result depends on it, so the direction  *)
(*     of such a tie is a choice of the action that rounds.                *)
(***************************************************************************)
EXTENDS Integers, Sequences, FiniteSets, TLC

\* Number of rows of a ledger of the family FilasFIFO.
MaxFilas == 4

\* Number of rows of a ledger of the families FilasEps and FilasLink.
MaxFilasLink == 3

\* The tolerance 1e-12 of the matching loop, in quantity ticks.
Eps == 10

\* round(x, 2): one cent is Cent mils.
Cent == 10

\* A missing trade id (pandas reads an empty cell as NaN).
NaN == "NaN"

\* --crypto not given.
None == "None"

---------------------------------------------------------------------------
(* Exact arithmetic on money.                                              *)

Abs(n) == IF n < 0 THEN -n ELSE n

RECURSIVE GCD(_, _)
GCD(a, b) == IF b = 0 THEN a ELSE GCD(b, a % b)

\* The rational n/d (d > 0) in lowest terms.
Rat(n, d) ==
    LET g == GCD(Abs(n), d) IN <<n \div g, d \div g>>

RInt(n) == <<n, 1>>

RAdd(x, y) ==
    LET g == GCD(x[2], y[2])
        l == (x[2] \div g) * y[2]
    IN  Rat(x[1] * (l \div x[2]) + y[1] * (l \div y[2]), l)

RNeg(x) == <<-x[1], x[2]>>

RSub(x, y) == RAdd(x, RNeg(y))

RMul(x, y) ==
    LET g1 == GCD(Abs(x[1]), y[2])
        g2 == GCD(Abs(y[1]), x[2])
    IN  Rat((x[1] \div g1) * (y[1] \div g2), (x[2] \div g2) * (y[2] \div g1))

RLe(x, y) == x[1] * y[2] <= y[1] * x[2]

RLt(x, y) == x[1] * y[2] < y[1] * x[2]

RAbs(x) == <<Abs(x[1]), x[2]>>

\* x is exactly half way between two cents.
EsEmpate(x) ==
    LET m == x[2] * Cent
        lo == x[1] \div m
    IN  2 * (x[1] - lo * m) = m

\* The ways a tie of round(x, 2) can go: both when x is a tie, else one.
Lados(x) == IF EsEmpate(x) THEN BOOLEAN ELSE {FALSE}

\* round(x, 2), in cents; arriba decides a tie.
round2(x, arriba) ==
    LET m == x[2] * Cent
        lo == x[1] \div m
        r2 == 2 * (x[1] - lo * m)
    IN  IF r2 < m THEN lo
        ELSE IF r2 > m THEN lo + 1
        ELSE IF arriba THEN lo + 1 ELSE lo

---------------------------------------------------------------------------
(* The ledger: the frame df as it stands after line 103 (canonical         *)
(* columns, rows of the fiscal year, "eur" cleaned to numbers, sorted by   *)
(* date).                                                                  *)

\* str.upper() on the tickers of the model.
Upper(s) ==
    CASE s = "btc" -> "BTC"
      [] s = "eth" -> "ETH"
      [] s = "eur" -> "EUR"
      [] OTHER -> s

\* A slip: the pattern (com|buy) takes the fee label "Comision" too.
es_compra_com(s) ==
    s \in {"Compra", "compra", "COMPRA", "Buy", "buy", "Comision", "comision", "COMISION"}

\* re.match(r"(compra|buy)", s, re.I): the labels that start with either.
es_compra(s) == s \in {"Compra", "compra", "COMPRA", "Buy", "buy"}

\* re.match(r"(venta|sell)", s, re.I)
es_venta(s) == s \in {"Venta", "venta", "VENTA", "Sell", "sell"}

\* re.match(r"(comisi|fee)", s, re.I)
es_fee(s) == s \in {"Comision", "comision", "COMISION", "Fee", "fee", "Fee (other)"}

\* --ignore, default "EUR", upper-cased by main.
ignorar == {"EUR"}

Fila(tipo, amount, cur, eur, trade_id) ==
    [tipo |-> tipo, amount |-> amount, cur |-> cur, eur |-> eur, trade_id |-> trade_id]

\* Rows of one asset that exercise the order of the lots: whole units of 40
\* ticks, values in whole EUR.
FilasFIFO ==
    { Fila("Compra", 40, "BTC", 100000, NaN),
      Fila("Compra", 40, "BTC", 200000, NaN),
      Fila("Compra", 40, "BTC", 300000, NaN),
      Fila("Compra", 80, "BTC", 100000, NaN),
      Fila("Venta", -40, "BTC", -150000, NaN),
      Fila("Venta", -60, "BTC", -450000, "T1"),
      Fila("Comision", 0, "BTC", 5000, "T1") }

\* Rows of one asset that exercise the tolerance and the rounding: quantities
\* next to each other by less than, and by more than, Eps; values below a cent.
FilasEps ==
    { Fila("Compra", 41, "BTC", 12, NaN),
      Fila("Compra", 51, "BTC", 25, NaN),
      Fila("Compra", 80, "BTC", 12, NaN),
      Fila("Compra", 5, "BTC", 7, NaN),
      Fila("Compra", 0, "BTC", 7, NaN),
      Fila("Venta", -40, "BTC", -4, NaN),
      Fila("Venta", -11, "BTC", -5, NaN),
      Fila("Venta", -5, "BTC", -3, NaN),
      Fila("Venta", 0, "BTC", 0, NaN) }

\* Rows that exercise the linkage by trade id: several assets, the fiat
\* ticker in both cases, fee legs in several assets, missing trade ids.
FilasLink ==
    { Fila("Compra", 40, "BTC", 100000, NaN),
      Fila("Venta", -40, "BTC", -150000, "T1"),
      Fila("Venta", -20, "BTC", -30004, NaN),
      Fila("Venta", -40, "ETH", -90000, "T2"),
      Fila("Compra", 150000, "EUR", 150000, "T1"),
      Fila("Deposito", 90000, "eur", 90000, "T2"),
      Fila("Comision", -5, "EUR", -5000, "T1"),
      Fila("Fee", -1, "eth", 2504, "T1"),
      Fila("Fee", 0, "BTC", 1234, NaN),
      Fila("Compra", 40, "eth", 60000, NaN),
      Fila("Compra", 30004, "EUR", 30004, NaN) }

\* Row k of a frame is dated k, so the frame is sorted by date (line 103).
Fechada(f) == [k \in DOMAIN f |-> [date |-> k] @@ f[k]]

\* The frames of n rows over one family.
Ledgers(fam, n) == { Fechada(f) : f \in [1..n -> fam] }

\* --crypto
SoloCryptos == {None, "BTC"}

\* The inputs of a run: the frame and --crypto.  On a frame whose rows are
\* all of one cripto the filter of that cripto keeps every row, so only the
\* frames of several criptos are run with it.
Entradas ==
    (Ledgers(FilasFIFO, MaxFilas) \X {None})
    \cup (Ledgers(FilasEps, MaxFilasLink) \X {None})
    \cup (Ledgers(FilasLink, MaxFilasLink) \X SoloCryptos)

Criptos == {"BTC", "ETH", "EUR"}

---------------------------------------------------------------------------
(* State of one run of fifo_ct.                                            *)

VARIABLES
    ledger,        \* the frame before step 3 (kept to state the claims)
    solo_crypto,   \* parameter solo_crypto
    df,            \* the frame the loop and the lookups read
    paso,          \* position in fifo_ct: "filtro", "fila", "fifo", "fin"
    i,             \* index in df of the row the loop is at
    inventario,    \* cripto -> queue of lots [qty, coste]
    filas,         \* the disposal records emitted so far
    salida,        \* remaining need of the disposal being matched
    valor_transm,  \* its gross value
    fee_eur,       \* its fee
    coste_fifo,    \* its matched cost so far
    antes,         \* history: the queue of its asset when its matching began
    hist,          \* history: per record, its row and its unrounded amounts
    resumen        \* the summary table

vars == <<ledger, solo_crypto, df, paso, i, inventario, filas, salida,
          valor_transm, fee_eur, coste_fifo, antes, hist, resumen>>

locales == <<salida, valor_transm, fee_eur, coste_fifo, antes>>

Cero == RInt(0)

Init ==
    /\ \E e \in Entradas :
        /\ ledger = e[1]
        /\ solo_crypto = e[2]
        /\ df = e[1]
    /\ paso = "filtro"
    /\ i = 1
    /\ inventario = [c \in Criptos |-> <<>>]
    /\ filas = <<>>
    /\ salida = 0
    /\ valor_transm = Cero
    /\ fee_eur = Cero
    /\ coste_fifo = Cero
    /\ antes = <<>>
    /\ hist = <<>>
    /\ resumen = <<>>

\* df[df["cur"].str.upper() == solo_crypto.upper()]
SoloCripto(d, solo) == SelectSeq(d, LAMBDA r : Upper(r.cur) = Upper(solo))

\* Step 3: keep only one cripto, when asked.
FiltraCripto ==
    /\ paso = "filtro"
    /\ df' = IF solo_crypto # None THEN SoloCripto(df, solo_crypto) ELSE df
    /\ paso' = "fila"
    /\ UNCHANGED <<ledger, solo_crypto, i, inventario, filas, locales, hist, resumen>>

row == df[i]

\* A slip: the key of the inventory is not taken from the row.
cur_fijo == "BTC"

\* cur = row["cur"].upper()
cur == Upper(row.cur)

EnFila == paso = "fila" /\ i <= Len(df)

\* if cur in ignorar: continue
IgnoraFila ==
    /\ EnFila
    /\ cur \in ignorar
    /\ i' = i + 1
    /\ UNCHANGED <<ledger, solo_crypto, df, paso, inventario, filas, locales, hist, resumen>>

\* A slip: the shortfall of the last disposal is taken from the new lot.
Lote_deuda(r) ==
    [qty |-> r.amount - (IF hist # <<>> THEN hist[Len(hist)].resto ELSE 0),
     coste |-> RInt(r.eur),
     fila |-> r.date]

\* A lot as the code appends it; fila is history: the date of its row.
Lote(r) == [qty |-> r.amount, coste |-> RInt(r.eur), fila |-> r.date]

\* COMPRA: inventario[cur].append([qty, eur])
Compra ==
    /\ EnFila
    /\ cur \notin ignorar
    /\ es_compra(row.tipo)
    /\ inventario' = [inventario EXCEPT ![cur] = Append(@, Lote(row))]
    /\ i' = i + 1
    /\ UNCHANGED <<ledger, solo_crypto, df, paso, filas, locales, hist, resumen>>

\* A row that is neither COMPRA nor VENTA falls through the if/elif.
OtraFila ==
    /\ EnFila
    /\ cur \notin ignorar
    /\ ~es_compra(row.tipo)
    /\ ~es_venta(row.tipo)
    /\ i' = i + 1
    /\ UNCHANGED <<ledger, solo_crypto, df, paso, inventario, filas, locales, hist, resumen>>

\* A slip: two empty cells are taken as equal.
MismoTrade_nan(a, b) == a = b

\* df["trade_id"] == row["trade_id"]: NaN equals nothing, itself included.
MismoTrade(a, b) == a # NaN /\ b # NaN /\ a = b

RECURSIVE SumaAbsEur(_)
SumaAbsEur(s) ==
    IF s = <<>> THEN Cero ELSE RAdd(RAbs(RInt(Head(s).eur)), SumaAbsEur(Tail(s)))

\* df[(df["trade_id"] == t) & df["tipo"].apply(es_fee)]["eur"].abs().sum()
FeeEur(d, t) ==
    SumaAbsEur(SelectSeq(d, LAMBDA r : MismoTrade(r.trade_id, t) /\ es_fee(r.tipo)))

\* VENTA, lines 126-133: the amounts of the disposal, before the loop.
IniciaVenta ==
    /\ EnFila
    /\ cur \notin ignorar
    /\ ~es_compra(row.tipo)
    /\ es_venta(row.tipo)
    /\ salida' = -row.amount
    /\ valor_transm' = RNeg(RInt(row.eur))
    /\ fee_eur' = FeeEur(df, row.trade_id)
    /\ coste_fifo' = Cero
    /\ antes' = inventario[cur]
    /\ paso' = "fifo"
    /\ UNCHANGED <<ledger, solo_crypto, df, i, inventario, filas, hist, resumen>>

\* A slip: the loop stops with one lot left in the queue.
SigueFifo_uno(s, cola) == s > Eps /\ Len(cola) > 1

\* while salida > 1e-12 and inventario[cur]
SigueFifo(s, cola) == s > Eps /\ cola # <<>>

\* A slip: the comparison without the tolerance.
LoteEntero_exacto(lot_qty, s) == lot_qty <= s

\* if lot_qty <= salida + 1e-12
LoteEntero(lot_qty, s) == lot_qty <= s + Eps

\* A slip: pop() takes the last lot, not the first.
QuitaFrente_pop(cola) == SubSeq(cola, 1, Len(cola) - 1)

\* A slip: the front lot is matched but stays in the queue.
QuitaFrente_nada(cola) == cola

\* inventario[cur].pop(0)
QuitaFrente(cola) == Tail(cola)

\* Lines 137-139: the front lot is consumed whole.
ConsumeLote ==
    /\ paso = "fifo"
    /\ SigueFifo(salida, inventario[cur])
    /\ LET lot == Head(inventario[cur]) IN
        /\ LoteEntero(lot.qty, salida)
        /\ coste_fifo' = RAdd(coste_fifo, lot.coste)
        /\ salida' = salida - lot.qty
        /\ inventario' = [inventario EXCEPT ![cur] = QuitaFrente(@)]
    /\ UNCHANGED <<ledger, solo_crypto, df, paso, i, filas, valor_transm, fee_eur,
                   antes, hist, resumen>>

\* prop = salida / lot_qty
Prop(s, lot_qty) == Rat(s, lot_qty)

\* A slip: the whole cost of a split lot is matched.
CosteParte_todo(lot_coste, prop) == lot_coste

\* A slip: the share that stays in the lot is matched.
CosteParte_resto(lot_coste, prop) == RMul(lot_coste, RSub(RInt(1), prop))

\* lot_coste * prop
CosteParte(lot_coste, prop) == RMul(lot_coste, prop)

\* A slip: the residual lot keeps its whole cost.
CosteResto_todo(lot_coste, prop) == lot_coste

\* A slip: the residual lot keeps the matched share, not the rest.
CosteResto_prop(lot_coste, prop) == RMul(lot_coste, prop)

\* lot_coste * (1 - prop)
CosteResto(lot_coste, prop) == RMul(lot_coste, RSub(RInt(1), prop))

\* Lines 141-145: the front lot is split.
ParteLote ==
    /\ paso = "fifo"
    /\ SigueFifo(salida, inventario[cur])
    /\ LET lot == Head(inventario[cur])
           prop == Prop(salida, lot.qty)
       IN
        /\ ~LoteEntero(lot.qty, salida)
        /\ coste_fifo' = RAdd(coste_fifo, CosteParte(lot.coste, prop))
        /\ inventario' = [inventario EXCEPT ![cur] =
               <<[lot EXCEPT !.qty = lot.qty - salida,
                             !.coste = CosteResto(lot.coste, prop)]>> \o Tail(@)]
        /\ salida' = 0
    /\ UNCHANGED <<ledger, solo_crypto, df, paso, i, filas, valor_transm, fee_eur,
                   antes, hist, resumen>>

\* "F" if "EUR" in df.loc[df["trade_id"] == t, "cur"].str.upper().values else "N"
Clave(d, t) ==
    IF \E k \in DOMAIN d : MismoTrade(d[k].trade_id, t) /\ Upper(d[k].cur) = "EUR"
    THEN "F" ELSE "N"

\* A slip: the fee is left out of the gain.
Ganancia_sinfee(v, c, f) == RSub(v, c)

\* valor_transm - coste_fifo - fee_eur
Ganancia(v, c, f) == RSub(RSub(v, c), f)

\* A slip: a disposal of quantity zero is not recorded.
Anota_omite(fs, reg) == IF reg.qty = 0 THEN fs ELSE Append(fs, reg)

\* filas.append({...})
Anota(fs, reg) == Append(fs, reg)

\* Lines 147-167: the loop is over; the record of the disposal is appended.
\* The record holds cents; each round() settles its own tie.
EmiteFila ==
    /\ paso = "fifo"
    /\ ~SigueFifo(salida, inventario[cur])
    /\ \E av \in Lados(valor_transm), ac \in Lados(coste_fifo), af \in Lados(fee_eur),
          ag \in Lados(Ganancia(valor_transm, coste_fifo, fee_eur)) :
        filas' = Anota(filas,
            [fecha |-> row.date,
             cripto |-> cur,
             qty |-> -row.amount,
             valor_transm |-> round2(valor_transm, av),
             coste_fifo |-> round2(coste_fifo, ac),
             gastos |-> round2(fee_eur, af),
             ganancia |-> round2(Ganancia(valor_transm, coste_fifo, fee_eur), ag),
             clave |-> Clave(df, row.trade_id)])
    /\ hist' = Append(hist,
            [row |-> row, valor |-> valor_transm, coste |-> coste_fifo,
             fee |-> fee_eur, resto |-> salida,
             antes |-> antes, despues |-> inventario[cur]])
    /\ salida' = 0
    /\ valor_transm' = Cero
    /\ fee_eur' = Cero
    /\ coste_fifo' = Cero
    /\ antes' = <<>>
    /\ paso' = "fila"
    /\ i' = i + 1
    /\ UNCHANGED <<ledger, solo_crypto, df, inventario, resumen>>

\* Sort order of sort_values(["cripto", "clave"]) on the tickers of the model.
Rango(g) ==
    LET rc == CASE g[1] = "BTC" -> 1 [] g[1] = "ETH" -> 2 [] OTHER -> 3
        rk == IF g[2] = "F" THEN 1 ELSE 2
    IN  2 * rc + rk

\* A slip: the group is taken from the cripto alone.
RECURSIVE SumaCampo_cripto(_, _, _)
SumaCampo_cripto(fs, g, campo) ==
    IF fs = <<>> THEN 0
    ELSE (IF Head(fs).cripto = g[1] THEN Head(fs)[campo] ELSE 0)
         + SumaCampo_cripto(Tail(fs), g, campo)

RECURSIVE SumaCampo(_, _, _)
SumaCampo(fs, g, campo) ==
    IF fs = <<>> THEN 0
    ELSE (IF <<Head(fs).cripto, Head(fs).clave>> = g THEN Head(fs)[campo] ELSE 0)
         + SumaCampo(Tail(fs), g, campo)

Grupos(fs) == { <<fs[k].cripto, fs[k].clave>> : k \in DOMAIN fs }

RECURSIVE Ordena(_, _)
Ordena(gs, fs) ==
    IF gs = {} THEN <<>>
    ELSE LET g == CHOOSE x \in gs : \A y \in gs : Rango(x) <= Rango(y)
         IN  <<[cripto |-> g[1],
                clave |-> g[2],
                valor_transm |-> SumaCampo(fs, g, "valor_transm"),
                coste_fifo |-> SumaCampo(fs, g, "coste_fifo"),
                gastos |-> SumaCampo(fs, g, "gastos"),
                ganancia |-> SumaCampo(fs, g, "ganancia")]>>
             \o Ordena(gs \ {g}, fs)

\* detalle.groupby(["cripto", "clave"]).agg(sum of the four amounts).sort_values(...)
Resumen(fs) == Ordena(Grupos(fs), fs)

\* Lines 169-183: the loop over the rows is over; the summary is built.
Agrega ==
    /\ paso = "fila"
    /\ i > Len(df)
    /\ resumen' = Resumen(filas)
    /\ paso' = "fin"
    /\ UNCHANGED <<ledger, solo_crypto, df, i, inventario, filas, locales, hist>>

Next ==
    \/ FiltraCripto
    \/ IgnoraFila
    \/ Compra
    \/ OtraFila
    \/ IniciaVenta
    \/ ConsumeLote
    \/ ParteLote
    \/ EmiteFila
    \/ Agrega

Spec == Init /\ [][Next]_vars

---------------------------------------------------------------------------
(* The loop of lines 113-167 as a function of the frame it runs on, built  *)
(* from the same operators as the actions: the queues and the unrounded    *)
(* amounts of the records after the last row.  It gives the outcome of a   *)
(* second run (another filter, a sub-ledger) to compare a behaviour with.  *)

\* Lines 134-145 on one queue: the queue, the need and the cost after the loop.
RECURSIVE Consume(_, _, _)
Consume(cola, s, c) ==
    IF ~SigueFifo(s, cola) THEN [cola |-> cola, salida |-> s, coste |-> c]
    ELSE LET lot == Head(cola)
             prop == Prop(s, lot.qty)
         IN  IF LoteEntero(lot.qty, s)
             THEN Consume(QuitaFrente(cola), s - lot.qty, RAdd(c, lot.coste))
             ELSE [cola |-> <<[lot EXCEPT !.qty = lot.qty - s,
                                          !.coste = CosteResto(lot.coste, prop)]>>
                            \o Tail(cola),
                   salida |-> 0,
                   coste |-> RAdd(c, CosteParte(lot.coste, prop))]

\* Lines 113-167 from row k of frame d on.
RECURSIVE Bucle(_, _, _, _)
Bucle(d, k, inv, regs) ==
    IF k > Len(d) THEN [inventario |-> inv, detalle |-> regs]
    ELSE LET r == d[k]
             c == Upper(r.cur)
             m == Consume(inv[c], -r.amount, Cero)
         IN  IF c \in ignorar THEN Bucle(d, k + 1, inv, regs)
             ELSE IF es_compra(r.tipo)
             THEN Bucle(d, k + 1, [inv EXCEPT ![c] = Append(@, Lote(r))], regs)
             ELSE IF es_venta(r.tipo)
             THEN Bucle(d, k + 1, [inv EXCEPT ![c] = m.cola],
                        Append(regs, [fecha |-> r.date,
                                      cripto |-> c,
                                      qty |-> -r.amount,
                                      valor |-> RNeg(RInt(r.eur)),
                                      coste |-> m.coste,
                                      fee |-> FeeEur(d, r.trade_id),
                                      clave |-> Clave(d, r.trade_id)]))
             ELSE Bucle(d, k + 1, inv, regs)

\* fifo_ct on frame d, from the empty inventory.
Corrida(d) == Bucle(d, 1, [c \in Criptos |-> <<>>], <<>>)

---------------------------------------------------------------------------
(* Definitions the claims are stated with.                                 *)

\* A queue as the code holds it: the pairs (qty, coste), without history.
SinFila(cola) == [k \in DOMAIN cola |-> <<cola[k].qty, cola[k].coste>>]

RECURSIVE SumaCoste(_)
SumaCoste(cola) ==
    IF cola = <<>> THEN Cero ELSE RAdd(Head(cola).coste, SumaCoste(Tail(cola)))

RECURSIVE SumaQty(_)
SumaQty(cola) == IF cola = <<>> THEN 0 ELSE Head(cola).qty + SumaQty(Tail(cola))

\* The acquisition rows of cripto c the loop has gone through.
Compras(c) ==
    SelectSeq(SubSeq(df, 1, i - 1),
              LAMBDA r : Upper(r.cur) = c /\ c \notin ignorar /\ r.tipo = "Compra")

\* Whole EUR in mils.
Euros(n) == RInt(n * 1000)

---------------------------------------------------------------------------
(* C1.  FIFO order.  The queue of every cripto is, in order, the lots of   *)
(* its latest acquisitions: a lot leaves the queue only from the front,    *)
(* and every lot behind the front holds the quantity and the cost of its   *)
(* acquisition row.  A disposal of 1 unit against the lots (1, 100) and    *)
(* (1, 200) matches a cost of 100 and leaves exactly the lot (1, 200).     *)
C1_FifoOrder ==
    /\ \A c \in Criptos :
        LET cs == Compras(c)
            q == inventario[c]
        IN  /\ Len(q) <= Len(cs)
            /\ \A k \in DOMAIN q :
                LET a == cs[Len(cs) - Len(q) + k] IN
                /\ q[k].fila = a.date
                /\ k > 1 => q[k].qty = a.amount /\ q[k].coste = RInt(a.eur)
    /\ \A k \in DOMAIN hist :
        (/\ SinFila(hist[k].antes) = << <<40, Euros(100)>>, <<40, Euros(200)>> >>
         /\ hist[k].row.amount = -40)
        => /\ hist[k].coste = Euros(100)
           /\ k \in DOMAIN filas /\ filas[k].coste_fifo = 10000
           /\ SinFila(hist[k].despues) = << <<40, Euros(200)>> >>

\* The run is over and the disposal of the example has been recorded.
C1_Witness ==
    /\ \E k \in DOMAIN hist :
        /\ SinFila(hist[k].antes) = << <<40, Euros(100)>>, <<40, Euros(200)>> >>
        /\ hist[k].row.amount = -40
    /\ paso = "fin"

---------------------------------------------------------------------------
(* C2.  Partial-lot split.  As claimed: whenever a disposal being matched  *)
(* finds a front lot whose quantity exceeds the remaining need by more     *)
(* than Eps, its next step adds cost * need / lot_qty to the matched cost, *)
(* leaves the lot at the front with quantity lot_qty - need and cost the   *)
(* original cost minus the share matched, and sets the remaining need to   *)
(* zero.                                                                   *)
Partido(lot, q) ==
    LET parte == RMul(lot.coste, Rat(q, lot.qty))
    IN  /\ coste_fifo' = RAdd(coste_fifo, parte)
        /\ Len(inventario'[cur]) = Len(inventario[cur])
        /\ Head(inventario'[cur]).qty = lot.qty - q
        /\ Head(inventario'[cur]).coste = RSub(lot.coste, parte)
        /\ Tail(inventario'[cur]) = Tail(inventario[cur])
        /\ salida' = 0

C2_Original ==
    [][(/\ paso = "fifo"
        /\ inventario[cur] # <<>>
        /\ salida > 0
        /\ Head(inventario[cur]).qty > salida + Eps)
       => Partido(Head(inventario[cur]), salida)]_vars

(* C2 as amended: the same, for a remaining need above Eps (the loop is    *)
(* still running).  A disposal of 1 unit against the lot (2, 100) matches  *)
(* 50 and leaves the lot (1, 50).                                          *)
C2_Ejemplo ==
    \A k \in DOMAIN hist :
        (/\ SinFila(hist[k].antes) = << <<80, Euros(100)>> >>
         /\ hist[k].row.amount = -40)
        => /\ hist[k].coste = Euros(50)
           /\ hist[k].resto = 0
           /\ SinFila(hist[k].despues) = << <<40, Euros(50)>> >>

C2_PartialSplit ==
    /\ [][(/\ paso = "fifo"
           /\ inventario[cur] # <<>>
           /\ salida > Eps
           /\ Head(inventario[cur]).qty > salida + Eps)
          => Partido(Head(inventario[cur]), salida)]_vars
    /\ []C2_Ejemplo

\* The disposal of the example has been recorded.
C2_Witness ==
    \E k \in DOMAIN hist :
        /\ SinFila(hist[k].antes) = << <<80, Euros(100)>> >>
        /\ hist[k].row.amount = -40

---------------------------------------------------------------------------
(* C3.  A disposal over several lots.  The matched cost of every disposal  *)
(* is the full cost of each lot it removed plus, for the one lot it        *)
(* reduced (if any), the share consumed/quantity of that lot's cost.  The  *)
(* ledger Compra BTC (1, 100), Compra BTC (1, 300), Venta BTC 1.5 for 450  *)
(* on trade T1, fee of 5 on trade T1 yields one record with matched cost   *)
(* 250, fee 5 and gain 195, and leaves the queue [(0.5, 150)].             *)
Enteros(h) ==
    { j \in DOMAIN h.antes :
        \A m \in DOMAIN h.despues : h.despues[m].fila # h.antes[j].fila }

Partidos(h) ==
    { j \in DOMAIN h.antes :
        \E m \in DOMAIN h.despues :
            /\ h.despues[m].fila = h.antes[j].fila
            /\ h.despues[m].qty # h.antes[j].qty }

\* The part of lot j of h.antes that the disposal took.
Consumido(h, j) ==
    LET m == CHOOSE m \in DOMAIN h.despues : h.despues[m].fila = h.antes[j].fila
    IN  Rat(h.antes[j].qty - h.despues[m].qty, h.antes[j].qty)

RECURSIVE SumaSobre(_, _, _)
SumaSobre(S, h, parcial) ==
    IF S = {} THEN Cero
    ELSE LET j == CHOOSE x \in S : TRUE
         IN  RAdd(IF parcial THEN RMul(h.antes[j].coste, Consumido(h, j))
                  ELSE h.antes[j].coste,
                  SumaSobre(S \ {j}, h, parcial))

LedgerE2E ==
    Fechada(<< Fila("Compra", 40, "BTC", 100000, NaN),
               Fila("Compra", 40, "BTC", 300000, NaN),
               Fila("Venta", -60, "BTC", -450000, "T1"),
               Fila("Comision", 0, "BTC", 5000, "T1") >>)

C3_VariosLotes ==
    /\ \A k \in DOMAIN hist :
        /\ Cardinality(Partidos(hist[k])) <= 1
        /\ hist[k].coste = RAdd(SumaSobre(Enteros(hist[k]), hist[k], FALSE),
                                SumaSobre(Partidos(hist[k]), hist[k], TRUE))
    /\ (paso = "fin" /\ ledger = LedgerE2E)
        => /\ filas = << [fecha |-> 3, cripto |-> "BTC", qty |-> 60,
                          valor_transm |-> 45000, coste_fifo |-> 25000,
                          gastos |-> 500, ganancia |-> 19500, clave |-> "N"] >>
           /\ SinFila(inventario["BTC"]) = << <<20, Euros(150)>> >>

\* The run over the ledger of the example is over.
C3_Witness == paso = "fin" /\ ledger = LedgerE2E /\ Len(filas) = 1

---------------------------------------------------------------------------
(* C4.  Conservation.                                                      *)

\* The records of cripto c, by index.
Registros(c) == { k \in DOMAIN filas : filas[k].cripto = c }

\* No disposal of c recorded so far asked for more than its queue held.
SinSobreventa(c) ==
    \A k \in DOMAIN hist :
        Upper(hist[k].row.cur) = c => -hist[k].row.amount <= SumaQty(hist[k].antes)

RECURSIVE SumaEur(_)
SumaEur(rs) == IF rs = <<>> THEN 0 ELSE Head(rs).eur + SumaEur(Tail(rs))

\* Sum over the records K of the field coste_fifo, in cents.
RECURSIVE SumaCosteFifo(_)
SumaCosteFifo(K) ==
    IF K = {} THEN 0
    ELSE LET k == CHOOSE x \in K : TRUE IN filas[k].coste_fifo + SumaCosteFifo(K \ {k})

\* Sum over the records K of the matched cost before round(), in mils.
RECURSIVE SumaCosteExacto(_)
SumaCosteExacto(K) ==
    IF K = {} THEN Cero
    ELSE LET k == CHOOSE x \in K : TRUE IN RAdd(hist[k].coste, SumaCosteExacto(K \ {k}))

(* C4 as claimed: for every cripto never oversold, the sum of the field    *)
(* coste_fifo of its records never exceeds the sum of the cost of its      *)
(* acquisitions.                                                           *)
C4_Original ==
    \A c \in Criptos :
        SinSobreventa(c) => SumaCosteFifo(Registros(c)) * Cent <= SumaEur(Compras(c))

(* C4 as amended: for every cripto never oversold, the sum of the matched  *)
(* cost of its disposals before the rounding to 2 decimals never exceeds   *)
(* the sum of the cost of its acquisitions; the sum of the rounded fields  *)
(* exceeds the unrounded sum by at most half a cent per record.            *)
C4_Conservacion ==
    \A c \in Criptos :
        SinSobreventa(c) =>
            /\ RLe(SumaCosteExacto(Registros(c)), RInt(SumaEur(Compras(c))))
            /\ RLe(RInt(2 * Cent * SumaCosteFifo(Registros(c))),
                   RAdd(RMul(RInt(2), SumaCosteExacto(Registros(c))),
                        RInt(Cent * Cardinality(Registros(c)))))

\* Two disposals of a cripto never oversold have been recorded with a matched
\* cost, and their rounded fields sum to more than the acquisitions cost.
C4_Witness ==
    \E c \in Criptos :
        /\ SinSobreventa(c)
        /\ Cardinality({ k \in Registros(c) : RLt(Cero, hist[k].coste) }) >= 2
        /\ SumaCosteFifo(Registros(c)) * Cent > SumaEur(Compras(c))

---------------------------------------------------------------------------
(* C5.  Fee attribution: the fee of every record is the sum, to the cent,  *)
(* of the absolute values of all the fee rows of the ledger that share the *)
(* trade id of its disposal, whatever their cripto; zero when there is     *)
(* none.                                                                   *)

\* The rows of the ledger that share the trade id t; a missing id is shared
\* with no row.
Legs(t) ==
    { j \in DOMAIN ledger : t # NaN /\ ledger[j].trade_id = t }

RECURSIVE SumaFees(_)
SumaFees(J) ==
    IF J = {} THEN 0
    ELSE LET j == CHOOSE x \in J : TRUE IN Abs(ledger[j].eur) + SumaFees(J \ {j})

FeesDelLedger(t) ==
    SumaFees({ j \in Legs(t) : ledger[j].tipo \in {"Comision", "Fee"} })

C5_FeeAttribution ==
    \A k \in DOMAIN filas :
        k \in DOMAIN hist =>
            LET f == RInt(FeesDelLedger(hist[k].row.trade_id))
            IN  filas[k].gastos \in { round2(f, TRUE), round2(f, FALSE) }

---------------------------------------------------------------------------
(* C6.  Counter-asset class: a record is "F" exactly when a row of the     *)
(* ledger that shares the trade id of its disposal is of the fiat ticker   *)
(* EUR, and "N" otherwise.                                                 *)
C6_Clave ==
    \A k \in DOMAIN filas :
        k \in DOMAIN hist =>
            (filas[k].clave = "F"
                <=> \E j \in Legs(hist[k].row.trade_id) : Upper(ledger[j].cur) = "EUR")
            /\ filas[k].clave \in {"F", "N"}

---------------------------------------------------------------------------
(* C7.  Gain identity.                                                     *)

\* The fee the engine attributes to trade id t: the fee rows of df.
FeesDelDf(t) ==
    SumaFees({ j \in Legs(t) :
                 /\ ledger[j].tipo \in {"Comision", "Fee"}
                 /\ \E m \in DOMAIN df : df[m] = ledger[j] })

(* C7 as claimed: in every record, ganancia = valor_transm - coste_fifo -  *)
(* gastos, on the fields as stored (rounded).                              *)
C7_Original ==
    \A k \in DOMAIN filas :
        filas[k].ganancia = filas[k].valor_transm - filas[k].coste_fifo - filas[k].gastos

(* C7 as amended: in every record, ganancia is the value received minus    *)
(* the matched cost minus the fees, taken before their rounding, and then  *)
(* rounded to 2 decimals; it differs from the difference of the three      *)
(* stored fields by at most 2 cents.                                       *)
C7_Ganancia ==
    \A k \in DOMAIN filas :
        k \in DOMAIN hist =>
            LET h == hist[k]
                g == RSub(RSub(RInt(-h.row.eur), h.coste), RInt(FeesDelDf(h.row.trade_id)))
                d == filas[k].ganancia
                     - (filas[k].valor_transm - filas[k].coste_fifo - filas[k].gastos)
            IN  /\ filas[k].ganancia \in { round2(g, TRUE), round2(g, FALSE) }
                /\ -2 <= d /\ d <= 2

\* A record with a matched cost whose gain is not the difference of its
\* stored fields.
C7_Witness ==
    \E k \in DOMAIN filas :
        /\ k \in DOMAIN hist
        /\ RLt(Cero, hist[k].coste)
        /\ filas[k].ganancia
            # filas[k].valor_transm - filas[k].coste_fifo - filas[k].gastos

---------------------------------------------------------------------------
(* C8.  Epsilon handling and lot positivity.  When every acquisition of    *)
(* the ledger has a quantity above zero, every lot of every queue has a    *)
(* quantity above zero in every state, and a lot that a disposal has       *)
(* reduced holds more than Eps.  A step of the matching loop on a front    *)
(* lot of at most the remaining need plus Eps removes that lot whole.  A   *)
(* lot of 1 unit + 1 tick (Eps/10) against a need of 1 unit is drained.    *)
ComprasPositivas ==
    \A j \in DOMAIN ledger : ledger[j].tipo = "Compra" => ledger[j].amount > 0

C8_Positivos ==
    ComprasPositivas =>
        \A c \in Criptos : \A k \in DOMAIN inventario[c] :
            LET lot == inventario[c][k] IN
            /\ lot.qty > 0
            /\ lot.qty # ledger[lot.fila].amount => lot.qty > Eps

C8_Ejemplo ==
    \A k \in DOMAIN hist :
        (/\ SinFila(hist[k].antes) = << <<41, RInt(12)>> >>
         /\ hist[k].row.amount = -40)
        => /\ hist[k].despues = <<>>
           /\ hist[k].coste = RInt(12)

---------------------------------------------------------------------------
(* C9.  Oversold disposal.                                                 *)

(* C9 as claimed: a disposal of more than the total quantity of the open   *)
(* lots of its cripto is recorded, with a matched cost equal to the sum of *)
(* the cost of those lots, and leaves the queue empty.  (Stated for the    *)
(* ledgers whose acquisitions all have a quantity above zero.)             *)
C9_Original ==
    ComprasPositivas =>
        \A k \in DOMAIN hist :
            -hist[k].row.amount > SumaQty(hist[k].antes)
            => /\ k \in DOMAIN filas
               /\ hist[k].coste = SumaCoste(hist[k].antes)
               /\ hist[k].despues = <<>>

\* The disposal rows the loop has gone through.
VentasHechas ==
    SelectSeq(SubSeq(df, 1, i - 1),
              LAMBDA r : Upper(r.cur) \notin ignorar /\ r.tipo = "Venta")

(* C9 as amended: the same for a disposal whose quantity exceeds the total *)
(* quantity of the open lots by more than Eps.  Every disposal row gone    *)
(* through has its record, oversold or not, and the unmatched quantity     *)
(* adds no cost: the matched cost never exceeds the cost of the open lots. *)
C9_Sobreventa ==
    /\ \A k \in DOMAIN hist :
        /\ k \in DOMAIN filas
        /\ RLe(hist[k].coste, SumaCoste(hist[k].antes))
        /\ -hist[k].row.amount > SumaQty(hist[k].antes) + Eps
            => /\ hist[k].coste = SumaCoste(hist[k].antes)
               /\ filas[k].coste_fifo \in { round2(SumaCoste(hist[k].antes), TRUE),
                                            round2(SumaCoste(hist[k].antes), FALSE) }
               /\ hist[k].despues = <<>>
               /\ hist[k].resto > Eps
    /\ Len(hist) = Len(VentasHechas)
    /\ \A k \in DOMAIN hist : k \in DOMAIN VentasHechas /\ hist[k].row = VentasHechas[k]

\* A disposal oversold by more than Eps against a queue of two lots with a
\* cost has been recorded.
C9_Witness ==
    \E k \in DOMAIN hist :
        /\ Len(hist[k].antes) = 2
        /\ RLt(Cero, SumaCoste(hist[k].antes))
        /\ -hist[k].row.amount > SumaQty(hist[k].antes) + Eps

---------------------------------------------------------------------------
(* C10.  One record per disposal.  When the run is over the records are,   *)
(* in order, those of the disposal rows of the ledger whose cripto is not  *)
(* ignored and passes the filter --crypto: same date, cripto and quantity; *)
(* no other row has a record.                                              *)
VentasDelLedger ==
    SelectSeq(ledger,
              LAMBDA r : /\ r.tipo = "Venta"
                         /\ Upper(r.cur) \notin ignorar
                         /\ solo_crypto # None => Upper(r.cur) = Upper(solo_crypto))

C10_UnRegistro ==
    paso = "fin" =>
        /\ Len(filas) = Len(VentasDelLedger)
        /\ \A k \in DOMAIN filas :
            /\ k \in DOMAIN VentasDelLedger
            /\ filas[k].fecha = VentasDelLedger[k].date
            /\ filas[k].cripto = Upper(VentasDelLedger[k].cur)
            /\ filas[k].qty = -VentasDelLedger[k].amount

\* The run is over on a ledger with a disposal of quantity zero, an oversold
\* disposal and a row that is not a disposal.
C10_Witness ==
    /\ paso = "fin"
    /\ \E k \in DOMAIN filas : filas[k].qty = 0
    /\ \E k \in DOMAIN hist : -hist[k].row.amount > SumaQty(hist[k].antes)
    /\ Len(filas) < Len(ledger)

---------------------------------------------------------------------------
(* C11.  Aggregation.  When the run is over the summary has exactly one    *)
(* row for each pair (cripto, clave) that occurs in the disposal records   *)
(* and no other row; each of its four totals is the sum of that field over *)
(* the records of the pair; and the gains of the summary rows add up to    *)
(* the gains of all the records.                                           *)
RECURSIVE SumaDe(_, _, _)
SumaDe(K, f, campo) ==
    IF K = {} THEN 0
    ELSE LET k == CHOOSE x \in K : TRUE
         IN  f[k][campo] + SumaDe(K \ {k}, f, campo)

DelPar(c, k) == { j \in DOMAIN filas : filas[j].cripto = c /\ filas[j].clave = k }

C11_Agregacion ==
    paso = "fin" =>
        /\ \A j \in DOMAIN filas :
            Cardinality({ n \in DOMAIN resumen :
                            /\ resumen[n].cripto = filas[j].cripto
                            /\ resumen[n].clave = filas[j].clave }) = 1
        /\ \A n \in DOMAIN resumen :
            LET K == DelPar(resumen[n].cripto, resumen[n].clave)
            IN  /\ K # {}
                /\ \A campo \in {"valor_transm", "coste_fifo", "gastos", "ganancia"} :
                    resumen[n][campo] = SumaDe(K, filas, campo)
        /\ SumaDe(DOMAIN resumen, resumen, "ganancia")
           = SumaDe(DOMAIN filas, filas, "ganancia")

\* The run is over with two summary rows of one cripto, one per clave.
C11_Witness ==
    /\ paso = "fin"
    /\ Len(resumen) = 2
    /\ resumen[1].cripto = resumen[2].cripto
    /\ resumen[1].clave # resumen[2].clave

---------------------------------------------------------------------------
(* C12.  Unlinked trade.  A disposal whose trade_id is missing, or whose   *)
(* trade_id is on no Fee row and on no EUR row of the ledger, has a record *)
(* with fee 0 and clave "N"; this holds too when the ledger has Fee rows   *)
(* or EUR rows whose trade_id is missing as well.                          *)
SinEnlace(r) ==
    \/ r.trade_id = NaN
    \/ \A j \in DOMAIN ledger :
        ledger[j].trade_id = r.trade_id
        => /\ ledger[j].tipo \notin {"Comision", "Fee"}
           /\ ledger[j].cur \notin {"EUR", "eur"}

C12_SinEnlace ==
    /\ \A k \in DOMAIN hist :
        SinEnlace(hist[k].row)
        => /\ hist[k].fee = Cero
           /\ k \in DOMAIN filas
           /\ filas[k].gastos = 0
           /\ filas[k].clave = "N"
    /\ paso = "fin" =>
        \A j \in DOMAIN VentasDelLedger :
            SinEnlace(VentasDelLedger[j])
            => /\ j \in DOMAIN hist
               /\ hist[j].row = VentasDelLedger[j]

\* The run is over; a disposal with no trade_id has its record, and the
\* ledger has a Fee row and an EUR row with no trade_id.
C12_Witness ==
    /\ paso = "fin"
    /\ \E k \in DOMAIN hist : hist[k].row.trade_id = NaN
    /\ \E j \in DOMAIN df : df[j].trade_id = NaN /\ df[j].tipo = "Fee"
    /\ \E j \in DOMAIN df : df[j].trade_id = NaN /\ df[j].cur = "EUR"

---------------------------------------------------------------------------
(* C13.  Single-asset filter equivalence, as claimed.  When a run with     *)
(* --crypto X is over, its records are those that the run on the same      *)
(* ledger without the filter emits for X: as many, in the same order, with *)
(* the same date, quantity, value, matched cost, fee, gain and clave.      *)
Redondeos(x) == { round2(x, a) : a \in Lados(x) }

\* Record f holds the rounded amounts of the unrounded record m.
MismoRegistro(f, m) ==
    /\ f.fecha = m.fecha
    /\ f.cripto = m.cripto
    /\ f.qty = m.qty
    /\ f.valor_transm \in Redondeos(m.valor)
    /\ f.coste_fifo \in Redondeos(m.coste)
    /\ f.gastos \in Redondeos(m.fee)
    /\ f.ganancia \in Redondeos(Ganancia(m.valor, m.coste, m.fee))
    /\ f.clave = m.clave

SinFiltro(X) == SelectSeq(Corrida(ledger).detalle, LAMBDA m : m.cripto = Upper(X))

C13_Filtro ==
    (paso = "fin" /\ solo_crypto # None) =>
        LET ref == SinFiltro(solo_crypto)
        IN  /\ Len(filas) = Len(ref)
            /\ \A k \in DOMAIN filas : MismoRegistro(filas[k], ref[k])

\* What does hold: the filtered run agrees on everything but the lookups.
C13_SalvoEnlaces ==
    (paso = "fin" /\ solo_crypto # None) =>
        LET ref == SinFiltro(solo_crypto)
        IN  /\ Len(filas) = Len(ref)
            /\ \A k \in DOMAIN filas :
                MismoRegistro(filas[k], [ref[k] EXCEPT !.fee = hist[k].fee,
                                                       !.clave = filas[k].clave])

---------------------------------------------------------------------------
(* C14.  One pass, no backtracking.  Every lot a disposal finds in its     *)
(* queue comes from an acquisition row before the disposal row; a step     *)
(* never changes or removes a record already in the list; and a queue      *)
(* grows only by one lot at its end, which holds the whole quantity and    *)
(* cost of the acquisition row, also after an oversold disposal.           *)
C14_UnaPasada ==
    /\ [](\A k \in DOMAIN hist :
            \A n \in DOMAIN hist[k].antes :
                hist[k].antes[n].fila < hist[k].row.date)
    /\ [][/\ Len(filas') >= Len(filas)
          /\ SubSeq(filas', 1, Len(filas)) = filas
          /\ SubSeq(hist', 1, Len(hist)) = hist]_vars
    /\ [][\A c \in Criptos :
            Len(inventario'[c]) > Len(inventario[c])
            => /\ row.tipo = "Compra"
               /\ c = Upper(row.cur)
               /\ inventario'[c] = Append(inventario[c],
                                          [qty |-> row.amount,
                                           coste |-> RInt(row.eur),
                                           fila |-> row.date])]_vars

\* A disposal was oversold by more than Eps, and a later acquisition of the
\* same cripto is in the queue.
C14_Witness ==
    \E k \in DOMAIN hist :
        /\ hist[k].resto > Eps
        /\ \E n \in DOMAIN inventario[Upper(hist[k].row.cur)] :
            inventario[Upper(hist[k].row.cur)][n].fila > hist[k].row.date

---------------------------------------------------------------------------
(* C15.  Termination of matching.  Vueltas, the number of turns the loop   *)
(* of a disposal can still take, is at most the length of the queue the    *)
(* disposal found and goes down with every turn, so the loop ends; each    *)
(* turn removes the front lot or sets the remaining need to zero; and the  *)
(* loop is left, with the record appended, exactly when the need is at     *)
(* most Eps or the queue of the cripto is empty.                           *)
Vueltas == IF salida > Eps THEN Len(inventario[cur]) ELSE 0

C15_Termina ==
    /\ [](paso = "fifo" => Vueltas \in 0..Len(antes))
    /\ [][(paso = "fifo" /\ paso' = "fifo")
          => /\ Vueltas' < Vueltas
             /\ \/ /\ inventario[cur] # <<>>
                   /\ inventario'[cur] = Tail(inventario[cur])
                \/ salida' = 0]_vars
    /\ [][paso = "fifo"
          => /\ paso' \in {"fifo", "fila"}
             /\ paso' = "fila" <=> (salida <= Eps \/ inventario[cur] = <<>>)
             /\ paso' = "fila" => Len(filas') = Len(filas) + 1]_vars

\* A disposal has taken a turn of the loop and takes another: the need is
\* still above Eps and the queue is not empty.
C15_Witness ==
    /\ paso = "fifo"
    /\ Len(antes) = Len(inventario[cur]) + 1
    /\ salida > Eps
    /\ inventario[cur] # <<>>

---------------------------------------------------------------------------
(* C16.  Rows that are neither acquisitions nor disposals change nothing.  *)
(* The step of the loop at a row labelled as a fee ("Comision", "Fee") or  *)
(* as neither fee, acquisition nor disposal ("Deposito"), or at a row of   *)
(* any label whose cripto is EUR, the ignored one, leaves the queue of     *)
(* every cripto and the list of records as they were.                      *)
SinEfecto(r) ==
    \/ r.tipo \in {"Comision", "Fee", "Deposito"}
    \/ r.cur \in {"EUR", "eur"}

C16_SinEfecto ==
    [][(paso = "fila" /\ i <= Len(df) /\ SinEfecto(df[i]))
       => /\ inventario' = inventario
          /\ filas' = filas
          /\ i' = i + 1
          /\ paso' = "fila"]_vars

\* The loop has just gone past an acquisition row in EUR, with a lot in a
\* queue and a record in the list.
C16_Witness ==
    /\ paso = "fila"
    /\ i > 1
    /\ df[i - 1].tipo = "Compra"
    /\ df[i - 1].cur = "EUR"
    /\ inventario["BTC"] # <<>>
    /\ filas # <<>>

---------------------------------------------------------------------------
(* C17.  Per-asset independence.  A step of the loop at a row of cripto A  *)
(* leaves the queue of every other cripto as it was; and when the run is   *)
(* over, the queue of each cripto A and the matched cost of each of its    *)
(* disposals are those of the run on the rows of A alone, in their order:  *)
(* they are the same however the rows of other criptos are interleaved.    *)
CostesDe(A) ==
    LET hs == SelectSeq(hist, LAMBDA h : Upper(h.row.cur) = A)
    IN  [k \in DOMAIN hs |-> <<hs[k].row.date, hs[k].coste>>]

CostesSolo(A) ==
    LET ms == Corrida(SoloCripto(df, A)).detalle
    IN  [k \in DOMAIN ms |-> <<ms[k].fecha, ms[k].coste>>]

C17_Independencia ==
    /\ [][\A c \in Criptos :
            (paso \in {"fila", "fifo"} /\ i <= Len(df) /\ c # Upper(df[i].cur))
            => inventario'[c] = inventario[c]]_vars
    /\ [](paso = "fin" =>
            \A A \in Criptos \ ignorar :
                /\ inventario[A] = Corrida(SoloCripto(df, A)).inventario[A]
                /\ CostesDe(A) = CostesSolo(A))

\* The run is over on a ledger with an acquisition of ETH between two rows
\* of BTC; a disposal of BTC has matched a cost, and a lot of BTC and the
\* lot of ETH are left.
C17_Witness ==
    /\ paso = "fin"
    /\ Len(df) = 3
    /\ Upper(df[1].cur) = "BTC" /\ Upper(df[2].cur) = "ETH" /\ Upper(df[3].cur) = "BTC"
    /\ inventario["BTC"] # <<>>
    /\ inventario["ETH"] # <<>>
    /\ \E k \in DOMAIN hist : Upper(hist[k].row.cur) = "BTC" /\ RLt(Cero, hist[k].coste)

---------------------------------------------------------------------------
(* C18.  Exact cost conservation.  In every state, for every cripto, the   *)
(* cost of its open lots plus the unrounded matched cost of its disposals  *)
(* so far (that of the disposal being matched included) is the cost of its *)
(* acquisitions so far, also after an oversold disposal.                   *)
EnCurso(c) ==
    IF paso = "fifo" /\ cur = c THEN coste_fifo ELSE Cero

---------------------------------------------------------------------------
(* C19.  No fee is counted twice, as claimed.  Every Fee row of the ledger *)
(* is part of the fee of at most one record, and the fees of the records   *)
(* add up, before round(), to no more than the absolute values of the Fee  *)
(* rows, also when disposal rows share a trade_id.                         *)
FilasFee == { j \in DOMAIN ledger : ledger[j].tipo \in {"Comision", "Fee"} }

\* The records whose fee holds the Fee row j of the ledger.
Cobran(j) ==
    { k \in DOMAIN hist :
        /\ ledger[j].trade_id # NaN
        /\ hist[k].row.trade_id = ledger[j].trade_id
        /\ \E n \in DOMAIN df : df[n] = ledger[j] }

\* Sum over the records K of the fee before round(), in mils.
RECURSIVE SumaFeeExacto(_)
SumaFeeExacto(K) ==
    IF K = {} THEN Cero
    ELSE LET k == CHOOSE x \in K : TRUE IN RAdd(hist[k].fee, SumaFeeExacto(K \ {k}))

C19_SinDoble ==
    /\ \A j \in FilasFee : Cardinality(Cobran(j)) <= 1
    /\ RLe(SumaFeeExacto(DOMAIN hist), RInt(SumaFees(FilasFee)))

\* What does hold: the fee of a record is the sum of the Fee rows of its
\* trade, each counted once for every record of the trade; where no Fee row
\* has two records, the fees add up to no more than the Fee rows.
C19_PorRegistro ==
    /\ \A k \in DOMAIN hist :
        hist[k].fee = RInt(SumaFees({ j \in FilasFee : k \in Cobran(j) }))
    /\ (\A j \in FilasFee : Cardinality(Cobran(j)) <= 1)
       => RLe(SumaFeeExacto(DOMAIN hist), RInt(SumaFees(FilasFee)))

====
